---- MODULE Spec2Model ----
(***************************************************************************)
(* Constraint collection of escamilla/type-checking (src/constraint.rs).   *)
(*                                                                         *)
(* collect_constraints walks an annotated syntax tree (TypedTerm) and      *)
(* returns the type-equality constraints of every node it visits, in       *)
(* pre-order.  The recursion of collect_constraints_with_bindings is       *)
(* modelled by its call stack: one frame per active call, one action per   *)
(* match arm, one action for a recursive call and one for a return.        *)
(***************************************************************************)
EXTENDS Naturals, Sequences, FiniteSets, TLC

\* Largest number of nodes of a generated program.
MaxSize == 7
\* Largest number of nodes of a generated program in the specification
\* that runs several calls one after the other.
SeqSize == 4

-----------------------------------------------------------------------------
(* Type (crate::annotator::Type, as constructed in constraint.rs)          *)

Variable(id) == [tag |-> "Variable", id |-> id]
TypeInteger == [tag |-> "Integer"]
TypeBoolean == [tag |-> "Boolean"]
Function(parameter_type, return_type) ==
    [tag |-> "Function", parameter_type |-> parameter_type,
     return_type |-> return_type]

(* struct Constraint { type1, type2 }                                      *)
Constraint(type1, type2) == [type1 |-> type1, type2 |-> type2]

-----------------------------------------------------------------------------
(* Syntax trees before annotation (the parser's output).  The value of an  *)
(* integer literal is left out: the collector matches Integer { .. } and   *)
(* never reads it.                                                         *)

IntegerTerm == [kind |-> "Integer"]
IdentifierTerm(name) == [kind |-> "Identifier", name |-> name]
ApplicationTerm(function, argument) ==
    [kind |-> "FunctionApplication", function |-> function,
     argument |-> argument]
DefinitionTerm(parameter, body) ==
    [kind |-> "FunctionDefinition", parameter |-> parameter, body |-> body]
IfTerm(condition, true_branch, false_branch) ==
    [kind |-> "IfExpression", condition |-> condition,
     true_branch |-> true_branch, false_branch |-> false_branch]
LetTerm(declaration_name, declaration_value, expression) ==
    [kind |-> "LetExpression", declaration_name |-> declaration_name,
     declaration_value |-> declaration_value, expression |-> expression]

\* Names of the generated programs: a user name and a built-in operator.
Names == {"x", "+"}
Leaves == {IntegerTerm} \cup {IdentifierTerm(n) : n \in Names}
\* A parameter is an Identifier node.
Parameters == {IdentifierTerm(n) : n \in Names}
\* A declaration name is an Identifier node, or (a malformed tree) a literal.
DeclarationNames == Leaves

\* The syntax trees of exactly n nodes, given the table S of the trees of
\* each smaller size (S[k]: the trees of k nodes).
ShapesOfSize(S, n) ==
    IF n = 1 THEN Leaves
    ELSE LET Two(m) == {ij \in (1..m) \X (1..m) : ij[1] + ij[2] = m}
             Three(m) == {ijk \in (1..m) \X (1..m) \X (1..m) :
                             ijk[1] + ijk[2] + ijk[3] = m}
         IN  UNION {{ApplicationTerm(f, a) : f \in S[ij[1]], a \in S[ij[2]]}
                    : ij \in Two(n - 1)}
             \cup (IF n < 3 THEN {}
                   ELSE {DefinitionTerm(p, b) :
                            p \in Parameters, b \in S[n - 2]})
             \cup UNION {{IfTerm(c, t, f) :
                            c \in S[ijk[1]], t \in S[ijk[2]], f \in S[ijk[3]]}
                         : ijk \in Three(n - 1)}
             \cup UNION {{LetTerm(d, v, e) : d \in DeclarationNames,
                             v \in S[ij[1]], e \in S[ij[2]]}
                         : ij \in Two(n - 2)}

\* The table of the syntax trees of 1, ..., n nodes.
RECURSIVE ShapesTable(_)
ShapesTable(n) ==
    IF n = 0 THEN <<>>
    ELSE LET S == ShapesTable(n - 1) IN Append(S, ShapesOfSize(S, n))

ShapesUpTo(n) == LET S == ShapesTable(n) IN UNION {S[k] : k \in 1..n}

(* The programs of the repository's tests (the parse is the one the tests' *)
(* expected constraints show: `x + 1` is ((+ x) 1)).                       *)
TestIdentifier == IdentifierTerm("x")
TestInteger == IntegerTerm
TestIf == IfTerm(IdentifierTerm("x"), IntegerTerm, IntegerTerm)
TestDefinition == DefinitionTerm(IdentifierTerm("x"), IdentifierTerm("x"))
TestApplication == ApplicationTerm(IdentifierTerm("inc"), IdentifierTerm("x"))
XPlusOne ==
    ApplicationTerm(ApplicationTerm(IdentifierTerm("+"), IdentifierTerm("x")),
                    IntegerTerm)
TestDefinitionWithApplication == DefinitionTerm(IdentifierTerm("x"), XPlusOne)
TestLet ==
    LetTerm(IdentifierTerm("inc"),
            DefinitionTerm(IdentifierTerm("x"), XPlusOne),
            ApplicationTerm(IdentifierTerm("inc"), IntegerTerm))
TestShapes ==
    {TestIdentifier, TestInteger, TestIf, TestDefinition, TestApplication,
     TestDefinitionWithApplication, TestLet}

-----------------------------------------------------------------------------
(* The annotation pass (crate::annotator::annotate, not in this file):     *)
(* every node gets a fresh type variable in pre-order, numbered from 1;    *)
(* a use of a function parameter inside the function's body gets the       *)
(* parameter's variable and consumes no number.  scope maps the parameter  *)
(* names in scope to their variables.                                      *)

RECURSIVE annotate_from(_, _, _)
annotate_from(t, next, scope) ==
    LET ty == Variable(next) IN
    CASE t.kind = "Integer" ->
           [term |-> [kind |-> "Integer", ty |-> ty], next |-> next + 1]
      [] t.kind = "Identifier" ->
           IF t.name \in DOMAIN scope
           THEN [term |-> [kind |-> "Identifier", name |-> t.name,
                           ty |-> scope[t.name]],
                 next |-> next]
           ELSE [term |-> [kind |-> "Identifier", name |-> t.name, ty |-> ty],
                 next |-> next + 1]
      [] t.kind = "FunctionApplication" ->
           LET f == annotate_from(t.function, next + 1, scope)
               a == annotate_from(t.argument, f.next, scope)
           IN  [term |-> [kind |-> "FunctionApplication", ty |-> ty,
                          function |-> f.term, argument |-> a.term],
                next |-> a.next]
      [] t.kind = "FunctionDefinition" ->
           LET pty == Variable(next + 1)
               p == [kind |-> "Identifier", name |-> t.parameter.name,
                     ty |-> pty]
               b == annotate_from(t.body, next + 2,
                                  (t.parameter.name :> pty) @@ scope)
           IN  [term |-> [kind |-> "FunctionDefinition", ty |-> ty,
                          parameter |-> p, body |-> b.term],
                next |-> b.next]
      [] t.kind = "IfExpression" ->
           LET c == annotate_from(t.condition, next + 1, scope)
               tb == annotate_from(t.true_branch, c.next, scope)
               fb == annotate_from(t.false_branch, tb.next, scope)
           IN  [term |-> [kind |-> "IfExpression", ty |-> ty,
                          condition |-> c.term, true_branch |-> tb.term,
                          false_branch |-> fb.term],
                next |-> fb.next]
      [] t.kind = "LetExpression" ->
           LET d == t.declaration_name @@ [ty |-> Variable(next + 1)]
               v == annotate_from(t.declaration_value, next + 2, scope)
               e == annotate_from(t.expression, v.next, scope)
           IN  [term |-> [kind |-> "LetExpression", ty |-> ty,
                          declaration_name |-> d,
                          declaration_value |-> v.term,
                          expression |-> e.term],
                next |-> e.next]

EmptyMap == [n \in {} |-> n]

annotate(t) == annotate_from(t, 1, EmptyMap).term

\* The inputs of collect_constraints: annotated programs.
Programs == {annotate(s) : s \in ShapesUpTo(MaxSize) \cup TestShapes}
SeqPrograms == {annotate(s) : s \in ShapesUpTo(SeqSize) \cup TestShapes}

-----------------------------------------------------------------------------
VARIABLES
    pc,         \* "idle": no call made yet; "running"; "done": the call returned
    term,       \* the TypedTerm passed to collect_constraints
    stack,      \* the active calls of collect_constraints_with_bindings
    visited,    \* path of a node |-> the bindings its call received
    returned,   \* path of a node |-> the Vec<Constraint> its call returned
    result,     \* what collect_constraints returned
    remembered  \* the term and the result of a first call, kept by the caller

vars == <<pc, term, stack, visited, returned, result, remembered>>

NoTerm == [kind |-> "None"]
NoCall == [term |-> NoTerm, result |-> <<>>]

\* The node of t at a path: a path is the sequence of field names from the root.
RECURSIVE At(_, _)
At(t, path) == IF path = <<>> THEN t ELSE At(t[Head(path)], Tail(path))

Top == stack[Len(stack)]
Node == At(term, Top.path)

Init ==
    /\ pc = "idle"
    /\ term = NoTerm
    /\ stack = <<>>
    /\ visited = EmptyMap
    /\ returned = EmptyMap
    /\ result = <<>>
    /\ remembered = NoCall

-----------------------------------------------------------------------------
(* HashMap<String, Type>: a function from the bound names to their types.  *)
(* insert replaces the value of a name that is already bound.              *)

insert(bindings, name, ty) == (name :> ty) @@ bindings

\* A faulty variant: the bindings are a map that outlives the call and still holds
\* what the largest scope of the previous call inserted.
LeakedBindings ==
    LET int_to_int == Function(TypeInteger, TypeInteger)
        fresh == [n \in {"+", "-", "*", "/", "="} |-> int_to_int]
    IN  IF DOMAIN visited = {} THEN fresh
        ELSE LET largest == CHOOSE p \in DOMAIN visited :
                                \A q \in DOMAIN visited :
                                    Cardinality(DOMAIN visited[q]) <=
                                        Cardinality(DOMAIN visited[p])
             IN  visited[largest] @@ fresh

\* The bindings collect_constraints builds before it delegates.
InitialBindings ==
    LET int_to_int == Function(TypeInteger, TypeInteger)
        b1 == insert(EmptyMap, "+", int_to_int)
        b2 == insert(b1, "-", int_to_int)
        b3 == insert(b2, "*", int_to_int)
        b4 == insert(b3, "/", int_to_int)
    IN  insert(b4, "=", int_to_int)

\* The frame of a call of collect_constraints_with_bindings that has not yet
\* reached its match: term (by its path) and bindings are its parameters.
Frame(path, bindings) ==
    [path |-> path, bindings |-> bindings, entered |-> FALSE,
     constraints |-> <<>>, calls |-> <<>>]

\* A recursive call the arm still has to make: the child and the bindings
\* it is passed.
Call(field, bindings) == [field |-> field, bindings |-> bindings]

\* pub fn collect_constraints(term)
collect_constraints(t) ==
    /\ pc \in {"idle", "done"}
    /\ pc' = "running"
    /\ term' = t
    /\ stack' = <<Frame(<<>>, InitialBindings)>>
    /\ visited' = (<<>> :> InitialBindings)
    /\ returned' = EmptyMap
    /\ result' = <<>>
    /\ UNCHANGED remembered

\* An arm of the match: `let mut constraints = vec![...]`, and the
\* recursive calls that follow it, in the order the arm makes them.
Enter(constraints, calls) ==
    /\ stack' = [stack EXCEPT ![Len(stack)] =
                    [@ EXCEPT !.entered = TRUE, !.constraints = constraints,
                              !.calls = calls]]
    /\ UNCHANGED <<pc, term, visited, returned, result, remembered>>

AtMatch(kind) ==
    /\ pc = "running"
    /\ ~Top.entered
    /\ Node.kind = kind

\* A faulty variant: the argument is collected before the function.
FunctionApplicationArgumentFirst ==
    /\ AtMatch("FunctionApplication")
    /\ Enter(<<Constraint(Node.function.ty,
                          Function(Node.argument.ty, Node.ty))>>,
             <<Call("argument", Top.bindings),
               Call("function", Top.bindings)>>)

FunctionApplication ==
    /\ AtMatch("FunctionApplication")
    /\ Enter(<<Constraint(Node.function.ty,
                          Function(Node.argument.ty, Node.ty))>>,
             <<Call("function", Top.bindings),
               Call("argument", Top.bindings)>>)

\* A faulty variant: the parameter is inserted into the bindings of the body.
FunctionDefinitionBindingParameter ==
    /\ AtMatch("FunctionDefinition")
    /\ Enter(<<Constraint(Node.ty,
                          Function(Node.parameter.ty, Node.body.ty))>>,
             <<Call("body", insert(Top.bindings, Node.parameter.name,
                                   Node.parameter.ty))>>)

\* A faulty variant: the parameter shadows a binding of its name: the name is
\* removed from the bindings of the body.
FunctionDefinitionShadowing ==
    /\ AtMatch("FunctionDefinition")
    /\ Enter(<<Constraint(Node.ty,
                          Function(Node.parameter.ty, Node.body.ty))>>,
             <<Call("body",
                    [n \in DOMAIN Top.bindings \ {Node.parameter.name} |->
                        Top.bindings[n]])>>)

FunctionDefinition ==
    /\ AtMatch("FunctionDefinition")
    /\ Enter(<<Constraint(Node.ty,
                          Function(Node.parameter.ty, Node.body.ty))>>,
             <<Call("body", Top.bindings)>>)

\* A faulty variant: the two sides of the constraint are exchanged.
IdentifierSwapped ==
    /\ AtMatch("Identifier")
    /\ IF Node.name \in DOMAIN Top.bindings
       THEN Enter(<<Constraint(Top.bindings[Node.name], Node.ty)>>, <<>>)
       ELSE Enter(<<>>, <<>>)

\* A faulty variant: bindings.get(name).unwrap(): an unbound name panics.
IdentifierUnwrap ==
    /\ AtMatch("Identifier")
    /\ Node.name \in DOMAIN Top.bindings
    /\ Enter(<<Constraint(Node.ty, Top.bindings[Node.name])>>, <<>>)

Identifier ==
    /\ AtMatch("Identifier")
    /\ IF Node.name \in DOMAIN Top.bindings
       THEN Enter(<<Constraint(Node.ty, Top.bindings[Node.name])>>, <<>>)
       ELSE Enter(<<>>, <<>>)

\* A faulty variant: the branches are collected before the condition.
IfExpressionBranchesFirst ==
    /\ AtMatch("IfExpression")
    /\ Enter(<<Constraint(Node.ty, Node.true_branch.ty),
               Constraint(Node.ty, Node.false_branch.ty),
               Constraint(Node.condition.ty, TypeBoolean),
               Constraint(Node.true_branch.ty, Node.false_branch.ty)>>,
             <<Call("true_branch", Top.bindings),
               Call("false_branch", Top.bindings),
               Call("condition", Top.bindings)>>)

IfExpression ==
    /\ AtMatch("IfExpression")
    /\ Enter(<<Constraint(Node.ty, Node.true_branch.ty),
               Constraint(Node.ty, Node.false_branch.ty),
               Constraint(Node.condition.ty, TypeBoolean),
               Constraint(Node.true_branch.ty, Node.false_branch.ty)>>,
             <<Call("condition", Top.bindings),
               Call("true_branch", Top.bindings),
               Call("false_branch", Top.bindings)>>)

Integer ==
    /\ AtMatch("Integer")
    /\ Enter(<<Constraint(Node.ty, TypeInteger)>>, <<>>)

\* A faulty variant: the insert is missing.
extended_bindings_unextended(declaration_name, bindings) == bindings

\* `let mut extended_bindings = bindings.clone()` and the insert made when
\* the declaration name is an Identifier.
extended_bindings(declaration_name, bindings) ==
    IF declaration_name.kind = "Identifier"
    THEN insert(bindings, declaration_name.name, declaration_name.ty)
    ELSE bindings

\* A faulty variant: a recursive let: the declaration value is collected under the
\* extended bindings.
LetExpressionRecursive ==
    /\ AtMatch("LetExpression")
    /\ Enter(<<Constraint(Node.ty, Node.expression.ty),
               Constraint(Node.declaration_name.ty,
                          Node.declaration_value.ty)>>,
             <<Call("declaration_value",
                    extended_bindings(Node.declaration_name, Top.bindings)),
               Call("expression",
                    extended_bindings(Node.declaration_name, Top.bindings))>>)

\* A faulty variant: the declaration name is collected like the other children.
LetExpressionCollectingName ==
    /\ AtMatch("LetExpression")
    /\ Enter(<<Constraint(Node.ty, Node.expression.ty),
               Constraint(Node.declaration_name.ty,
                          Node.declaration_value.ty)>>,
             <<Call("declaration_name", Top.bindings),
               Call("declaration_value", Top.bindings),
               Call("expression",
                    extended_bindings(Node.declaration_name, Top.bindings))>>)

LetExpression ==
    /\ AtMatch("LetExpression")
    /\ Enter(<<Constraint(Node.ty, Node.expression.ty),
               Constraint(Node.declaration_name.ty,
                          Node.declaration_value.ty)>>,
             <<Call("declaration_value", Top.bindings),
               Call("expression",
                    extended_bindings(Node.declaration_name, Top.bindings))>>)

\* The next recursive call of the arm: collect_constraints_with_bindings(child, ...)
Recurse ==
    /\ pc = "running"
    /\ Top.entered
    /\ Top.calls # <<>>
    /\ LET call == Head(Top.calls)
           path == Append(Top.path, call.field)
       IN  /\ stack' = Append([stack EXCEPT ![Len(stack)].calls = Tail(@)],
                              Frame(path, call.bindings))
           /\ visited' = (path :> call.bindings) @@ visited
    /\ UNCHANGED <<pc, term, returned, result, remembered>>

\* The arm's last expression, `constraints`, is returned; the caller
\* extends its own constraints with it (constraints.extend(...)), and the
\* outermost call's value is what collect_constraints returns.
Return ==
    /\ pc = "running"
    /\ Top.entered
    /\ Top.calls = <<>>
    /\ returned' = (Top.path :> Top.constraints) @@ returned
    /\ IF Len(stack) = 1
       THEN /\ stack' = <<>>
            /\ result' = Top.constraints
            /\ pc' = "done"
       ELSE /\ stack' = [SubSeq(stack, 1, Len(stack) - 1)
                            EXCEPT ![Len(stack) - 1].constraints =
                                      @ \o Top.constraints]
            /\ UNCHANGED <<result, pc>>
    /\ UNCHANGED <<term, visited, remembered>>

\* A step of the traversal.
Step ==
    \/ FunctionApplication
    \/ FunctionDefinition
    \/ Identifier
    \/ IfExpression
    \/ Integer
    \/ LetExpression
    \/ Recurse
    \/ Return

\* One call of collect_constraints on any program.
Next ==
    \/ /\ pc = "idle"
       /\ \E t \in Programs : collect_constraints(t)
    \/ Step

Spec == Init /\ [][Next]_vars

\* The traversal is a sequence of steps of one thread: a call that can take
\* a step takes it.
FairSpec == Spec /\ WF_vars(Step)

\* The caller keeps the term and the result of its first call
\* (`let constraints = collect_constraints(&typed_term)`).
Remember ==
    /\ pc = "done"
    /\ remembered = NoCall
    /\ remembered' = [term |-> term, result |-> result]
    /\ UNCHANGED <<pc, term, stack, visited, returned, result>>

\* Calls of collect_constraints one after the other, on any programs.
NextSeq ==
    \/ /\ pc = "idle" \/ (pc = "done" /\ remembered # NoCall)
       /\ \E t \in SeqPrograms : collect_constraints(t)
    \/ Remember
    \/ Step

SeqSpec == Init /\ [][NextSeq]_vars

-----------------------------------------------------------------------------
(* Vocabulary of the properties.                                           *)

IsPrefix(p, q) == Len(p) <= Len(q) /\ SubSeq(q, 1, Len(p)) = p

\* The fields of a node that hold a TypedTerm.
Fields(t) ==
    CASE t.kind = "FunctionApplication" -> {"function", "argument"}
      [] t.kind = "FunctionDefinition" -> {"parameter", "body"}
      [] t.kind = "IfExpression" ->
           {"condition", "true_branch", "false_branch"}
      [] t.kind = "LetExpression" ->
           {"declaration_name", "declaration_value", "expression"}
      [] OTHER -> {}

\* The paths of all nodes of t, binders (parameters, declaration names)
\* included.
RECURSIVE PathsOf(_)
PathsOf(t) ==
    {<<>>} \cup UNION {{<<f>> \o q : q \in PathsOf(t[f])} : f \in Fields(t)}

\* The paths of the nodes of t in expression position: not a parameter, not
\* a declaration name, nor inside one.
ExpressionPathsOf(t) ==
    {q \in PathsOf(t) :
        \A i \in DOMAIN q : q[i] \notin {"parameter", "declaration_name"}}

\* The node at p is a let whose declaration name is an Identifier.
BindingLet(p) ==
    /\ At(term, p).kind = "LetExpression"
    /\ At(term, p).declaration_name.kind = "Identifier"

\* The node at q is an Identifier named n.
Named(q, n) ==
    /\ At(term, q).kind = "Identifier"
    /\ At(term, q).name = n

\* q lies inside the expression of a let, nested below p, that rebinds n.
Rebound(p, q, n) ==
    \E k \in (Len(p) + 1)..(Len(q) - 1) :
        LET inner == SubSeq(q, 1, k) IN
        /\ BindingLet(inner)
        /\ At(term, inner).declaration_name.name = n
        /\ q[k + 1] = "expression"

\* The bindings contain name |-> ty.
Binds(bindings, name, ty) ==
    name \in DOMAIN bindings /\ bindings[name] = ty

\* The five built-in operators, as the specification states them.
FiveBuiltIns ==
    [n \in {"+", "-", "*", "/", "="} |-> Function(TypeInteger, TypeInteger)]

\* The bindings lexical scoping gives the node at path q of t: the bindings
\* of the root, extended at every let (with an Identifier declaration name)
\* whose expression the path enters.  Function definitions add nothing.
RECURSIVE ScopeFrom(_, _, _)
ScopeFrom(t, q, bindings) ==
    IF q = <<>> THEN bindings
    ELSE ScopeFrom(t[Head(q)], Tail(q),
                   IF /\ t.kind = "LetExpression"
                      /\ Head(q) = "expression"
                      /\ t.declaration_name.kind = "Identifier"
                   THEN (t.declaration_name.name :> t.declaration_name.ty)
                        @@ bindings
                   ELSE bindings)

LetScope(q) == ScopeFrom(term, q, FiveBuiltIns)

Done(shape) == pc = "done" /\ term = annotate(shape)

-----------------------------------------------------------------------------
(* C1 *)

\* For every let at p (declaration name an Identifier named n) that has
\* returned: its first two constraints are T = type(E) and
\* type(N) = type(V), and every Identifier node named n of E (among all
\* its nodes if binders is TRUE, among those in expression position
\* otherwise) that is not inside a nested let's expression rebinding n was
\* collected with n bound to type(N) and returned exactly the one
\* constraint type(occurrence) = type(N).
LetConstrains(binders) ==
    \A p \in DOMAIN returned :
        BindingLet(p) =>
            LET t == At(term, p)
                N == t.declaration_name
            IN  /\ Len(returned[p]) >= 2
                /\ returned[p][1] = Constraint(t.ty, t.expression.ty)
                /\ returned[p][2] = Constraint(N.ty, t.declaration_value.ty)
                /\ \A r \in IF binders THEN PathsOf(t.expression)
                                     ELSE ExpressionPathsOf(t.expression) :
                      LET q == p \o <<"expression">> \o r IN
                      (Named(q, N.name) /\ ~Rebound(p, q, N.name)) =>
                          /\ q \in DOMAIN returned
                          /\ returned[q] =
                                <<Constraint(At(term, q).ty, N.ty)>>
                          /\ Binds(visited[q], N.name, N.ty)

\* C1 as stated: every Identifier node named n that occurs in E, wherever
\* it stands (parameters and declaration names are Identifier nodes too),
\* yields exactly one constraint type(occurrence) = type(N).
C1_EveryIdentifierNodeConstrained == LetConstrains(TRUE)

\* C1 amended: for a LetExpression with declaration name Identifier n,
\* collect_constraints emits T = type(E) and type(N) = type(V), and every
\* Identifier node named n that occurs in E in expression position (not as
\* a function parameter or a let declaration name) and not inside a nested
\* let's expression that rebinds n yields exactly one constraint
\* type(occurrence) = type(N), by environment lookup; in
\* `let val inc = fn x => x + 1 in inc 42 end` the body occurrence of inc
\* yields exactly Variable(10) = Variable(2) and the `+` of the value
\* yields type(+) = Function(Integer, Integer).
C1_LetOccurrencesConstrained ==
    /\ LetConstrains(FALSE)
    /\ Done(TestLet) =>
          /\ returned[<<"expression", "function">>] =
                <<Constraint(Variable(10), Variable(2))>>
          /\ returned[<<"declaration_value", "body", "function",
                        "function">>] =
                <<Constraint(Variable(7),
                             Function(TypeInteger, TypeInteger))>>

\* A let of x has returned whose expression holds a use of x that it binds
\* and a use of x that a nested let rebinds.
C1_Witness ==
    /\ pc = "done"
    /\ \E p \in DOMAIN returned :
          /\ BindingLet(p)
          /\ \E r1, r2 \in ExpressionPathsOf(At(term, p).expression) :
                LET n == At(term, p).declaration_name.name
                    q1 == p \o <<"expression">> \o r1
                    q2 == p \o <<"expression">> \o r2
                IN  /\ Named(q1, n) /\ ~Rebound(p, q1, n)
                    /\ Named(q2, n) /\ Rebound(p, q2, n)

-----------------------------------------------------------------------------
(* C2 *)

\* C2: the environment extension of a let is visible only inside its
\* expression E: the declaration value is collected under exactly the
\* bindings the let received, and no node outside E (the let itself, its
\* value, siblings, ancestors and their other children) is collected under
\* bindings that contain the let's binding n |-> type(N).  In
\* `let val x = x in x end` the x of the value yields no constraint and the
\* x of the body yields one.
C2_LetExtensionOnlyInExpression ==
    /\ \A p \in DOMAIN visited :
          At(term, p).kind = "LetExpression" =>
              LET N == At(term, p).declaration_name
                  pV == Append(p, "declaration_value")
                  pE == Append(p, "expression")
              IN  /\ pV \in DOMAIN visited => visited[pV] = visited[p]
                  /\ N.kind = "Identifier" =>
                        \A q \in DOMAIN visited :
                            ~IsPrefix(pE, q) => ~Binds(visited[q], N.name, N.ty)
    /\ Done(LetTerm(IdentifierTerm("x"), IdentifierTerm("x"),
                    IdentifierTerm("x"))) =>
          /\ returned[<<"declaration_value">>] = <<>>
          /\ returned[<<"expression">>] =
                <<Constraint(Variable(4), Variable(2))>>

\* `(let val x = x in x end) x` has been collected: the body's x was
\* constrained, the value's x and the argument x were not.
C2_Witness ==
    /\ Done(ApplicationTerm(LetTerm(IdentifierTerm("x"), IdentifierTerm("x"),
                                    IdentifierTerm("x")),
                            IdentifierTerm("x")))
    /\ returned[<<"function", "expression">>] # <<>>
    /\ returned[<<"function", "declaration_value">>] = <<>>
    /\ returned[<<"argument">>] = <<>>

-----------------------------------------------------------------------------
(* C3 *)

\* C3: every call of collect_constraints starts from exactly the five
\* names +, -, *, /, = bound to Function(Integer, Integer), whatever the
\* earlier calls were, and a call on the term of the caller's first call
\* (which was made alone) returns the result that first call returned.
C3_FreshBuiltInsEveryCall ==
    /\ pc # "idle" => visited[<<>>] = FiveBuiltIns
    /\ (pc = "done" /\ remembered.term = term) => result = remembered.result

\* A later call has returned on the term of the first call,
\* `let val x = x in x end`, in which a let binds x and x is also used
\* outside that let's expression.
C3_Witness ==
    /\ pc = "done"
    /\ remembered # NoCall
    /\ remembered.term = term
    /\ term = annotate(LetTerm(IdentifierTerm("x"), IdentifierTerm("x"),
                              IdentifierTerm("x")))
    /\ Len(result) = 3

-----------------------------------------------------------------------------
(* C4 *)

\* C4: an Identifier node with type T and name n collected under env
\* returns the empty sequence if n is not in env and exactly <<T = B>> if
\* env maps n to B; its arm can always be taken (no error) and no call is
\* made below it.
C4_IdentifierLookup ==
    /\ \A p \in DOMAIN returned :
          At(term, p).kind = "Identifier" =>
              LET node == At(term, p)
                  env == visited[p]
              IN  /\ node.name \notin DOMAIN env => returned[p] = <<>>
                  /\ node.name \in DOMAIN env =>
                        returned[p] = <<Constraint(node.ty, env[node.name])>>
                  /\ \A q \in DOMAIN visited : IsPrefix(p, q) => q = p
    /\ (pc = "running" /\ ~Top.entered /\ Node.kind = "Identifier") =>
          ENABLED Identifier

\* A call has returned in which one Identifier was unbound and another
\* was bound.
C4_Witness ==
    /\ pc = "done"
    /\ \E p, q \in DOMAIN returned :
          /\ At(term, p).kind = "Identifier"
          /\ At(term, p).name \notin DOMAIN visited[p]
          /\ returned[p] = <<>>
          /\ At(term, q).kind = "Identifier"
          /\ At(term, q).name \in DOMAIN visited[q]
          /\ Len(returned[q]) = 1

-----------------------------------------------------------------------------
(* C5 *)

\* C5: a FunctionDefinition node with type T, parameter P and body Bd
\* collected under env returns exactly <<T = Function(type(P), type(Bd))>>
\* followed by the constraints of Bd collected under the same env; the
\* parameter node is never visited.  `fn x => x` yields exactly one
\* constraint.
C5_DefinitionBodyOnly ==
    /\ \A p \in DOMAIN returned :
          At(term, p).kind = "FunctionDefinition" =>
              LET t == At(term, p)
                  pB == Append(p, "body")
              IN  /\ returned[p] =
                        <<Constraint(t.ty,
                                     Function(t.parameter.ty, t.body.ty))>>
                        \o returned[pB]
                  /\ visited[pB] = visited[p]
                  /\ \A q \in DOMAIN visited :
                        ~IsPrefix(Append(p, "parameter"), q)
    /\ Done(TestDefinition) =>
          result = <<Constraint(Variable(1),
                                Function(Variable(2), Variable(2)))>>

\* `fn + => +` has been collected: the parameter's name is bound in the
\* environment, the parameter gave no constraint, the body gave one.
C5_Witness ==
    /\ Done(DefinitionTerm(IdentifierTerm("+"), IdentifierTerm("+")))
    /\ <<"parameter">> \notin DOMAIN visited
    /\ Len(result) = 2

-----------------------------------------------------------------------------
(* C6 *)

\* C6: a FunctionApplication node with type T, function F and argument A
\* collected under env returns exactly <<type(F) = Function(type(A), T)>>,
\* then the constraints of F under env, then those of A under env.  In
\* `fn x => x + 1`, parsed ((+ x) 1), the built-in + contributes
\* type(+) = Function(Integer, Integer).
C6_ApplicationShape ==
    /\ \A p \in DOMAIN returned :
          At(term, p).kind = "FunctionApplication" =>
              LET t == At(term, p)
                  pF == Append(p, "function")
                  pA == Append(p, "argument")
              IN  /\ returned[p] =
                        <<Constraint(t.function.ty,
                                     Function(t.argument.ty, t.ty))>>
                        \o returned[pF] \o returned[pA]
                  /\ visited[pF] = visited[p]
                  /\ visited[pA] = visited[p]
    /\ Done(TestDefinitionWithApplication) =>
          returned[<<"body">>] =
              <<Constraint(Variable(4), Function(Variable(6), Variable(3))),
                Constraint(Variable(5), Function(Variable(2), Variable(4))),
                Constraint(Variable(5), Function(TypeInteger, TypeInteger)),
                Constraint(Variable(6), TypeInteger)>>

\* An application has returned whose function is itself an application and
\* whose function and argument both gave constraints.
C6_Witness ==
    /\ pc = "done"
    /\ \E p \in DOMAIN returned :
          /\ At(term, p).kind = "FunctionApplication"
          /\ At(term, p).function.kind = "FunctionApplication"
          /\ returned[Append(p, "function")] # <<>>
          /\ returned[Append(p, "argument")] # <<>>

-----------------------------------------------------------------------------
(* C7 *)

\* C7: an IfExpression node with type T, condition C and branches Tr, Fa
\* collected under env returns exactly T = type(Tr), T = type(Fa),
\* type(C) = Boolean, type(Tr) = type(Fa), in that order, then the
\* constraints of C, of Tr and of Fa, each collected under env.
C7_IfShape ==
    \A p \in DOMAIN returned :
        At(term, p).kind = "IfExpression" =>
            LET t == At(term, p)
                pC == Append(p, "condition")
                pT == Append(p, "true_branch")
                pF == Append(p, "false_branch")
            IN  /\ returned[p] =
                      <<Constraint(t.ty, t.true_branch.ty),
                        Constraint(t.ty, t.false_branch.ty),
                        Constraint(t.condition.ty, TypeBoolean),
                        Constraint(t.true_branch.ty, t.false_branch.ty)>>
                      \o returned[pC] \o returned[pT] \o returned[pF]
                /\ visited[pC] = visited[p]
                /\ visited[pT] = visited[p]
                /\ visited[pF] = visited[p]

\* An if has returned whose condition and branches are of different kinds
\* and gave constraints of their own.
C7_Witness ==
    /\ pc = "done"
    /\ \E p \in DOMAIN returned :
          /\ At(term, p).kind = "IfExpression"
          /\ At(term, p).condition.kind = "FunctionApplication"
          /\ At(term, p).true_branch.kind = "Integer"
          /\ At(term, p).false_branch.kind = "Identifier"
          /\ Len(returned[p]) > 5

-----------------------------------------------------------------------------
(* C8 *)

\* C8: collect_constraints is total: on every program a call that has
\* started returns; no state is reached in which the traversal can
\* neither step nor return.
C8_CollectorTotal == (pc = "running") ~> (pc = "done")

\* The call on the ill-typed `1 x`, whose x is unbound, has returned.
C8_Witness ==
    /\ Done(ApplicationTerm(IntegerTerm, IdentifierTerm("x")))
    /\ Len(result) = 2

-----------------------------------------------------------------------------
(* C9 *)

\* C9: a LetExpression whose declaration name is not an Identifier raises
\* no error (its arm can be taken); it returns T = type(E) and
\* type(N) = type(V), then the constraints of V, then those of E; the
\* declaration name is never visited, and E is collected under the
\* bindings the let received.
C9_MalformedLetTolerated ==
    /\ \A p \in DOMAIN returned :
          (/\ At(term, p).kind = "LetExpression"
           /\ At(term, p).declaration_name.kind # "Identifier") =>
              LET t == At(term, p)
                  pV == Append(p, "declaration_value")
                  pE == Append(p, "expression")
              IN  /\ returned[p] =
                        <<Constraint(t.ty, t.expression.ty),
                          Constraint(t.declaration_name.ty,
                                     t.declaration_value.ty)>>
                        \o returned[pV] \o returned[pE]
                  /\ \A q \in DOMAIN visited :
                        ~IsPrefix(Append(p, "declaration_name"), q)
                  /\ visited[pE] = visited[p]
                  /\ visited[pV] = visited[p]
    /\ (/\ pc = "running" /\ ~Top.entered
        /\ Node.kind = "LetExpression"
        /\ Node.declaration_name.kind # "Identifier") =>
          ENABLED LetExpression

\* A let whose declaration name is a literal has returned, nested in the
\* expression of a let that binds x, with x used in its own expression.
C9_Witness ==
    /\ pc = "done"
    /\ \E p \in DOMAIN returned :
          /\ p # <<>>
          /\ At(term, p).kind = "LetExpression"
          /\ At(term, p).declaration_name.kind = "Integer"
          /\ At(term, p).expression.kind = "Identifier"
          /\ visited[p] # FiveBuiltIns
          /\ Len(returned[Append(p, "expression")]) = 1

-----------------------------------------------------------------------------
(* C10 *)

\* C10: a function parameter does not shadow an environment binding: an
\* Identifier node collected inside the body of a FunctionDefinition (the
\* nodes of the body in expression position), named like the parameter,
\* whose name is bound in its environment by an enclosing let's expression
\* scope or as a built-in, yields exactly the constraint
\* type(occurrence) = bound type, the binding being the one it would have
\* were the FunctionDefinition absent.  In `let val x = 1 in fn x => x end`
\* the inner x is constrained against the type of the let's declaration
\* name.
C10_ParameterDoesNotShadow ==
    /\ \A p \in DOMAIN returned :
          At(term, p).kind = "FunctionDefinition" =>
              LET t == At(term, p)
                  n == t.parameter.name
              IN  \A r \in ExpressionPathsOf(t.body) :
                      LET q == p \o <<"body">> \o r IN
                      (Named(q, n) /\ n \in DOMAIN LetScope(q)) =>
                          /\ q \in DOMAIN returned
                          /\ visited[q] = LetScope(q)
                          /\ returned[q] =
                                <<Constraint(At(term, q).ty, LetScope(q)[n])>>
    /\ Done(LetTerm(IdentifierTerm("x"), IntegerTerm,
                    DefinitionTerm(IdentifierTerm("x"),
                                   IdentifierTerm("x")))) =>
          returned[<<"expression", "body">>] =
              <<Constraint(Variable(5), Variable(2))>>

\* `let val x = 1 in fn x => x end` has been collected and the inner x
\* gave a constraint.
C10_Witness ==
    /\ Done(LetTerm(IdentifierTerm("x"), IntegerTerm,
                    DefinitionTerm(IdentifierTerm("x"),
                                   IdentifierTerm("x"))))
    /\ Len(returned[<<"expression", "body">>]) = 1
    /\ Len(result) = 5

====
